---- MODULE Spec2Model ----
(***************************************************************************)
(* State-machine model of the Tinker UI toolkit (src/Source/tinker.js):    *)
(* the TypeChecker singleton, the UserInterface registry, the Page         *)
(* structural root, Switch and Checkbox, Table, the text of Paragraph and  *)
(* Heading, and ColorManager.  JavaScript values are represented by        *)
(* identifier strings; a string that is not one of the reserved            *)
(* identifiers below stands for the JavaScript string with that text.      *)
(***************************************************************************)
EXTENDS Integers, Sequences, FiniteSets, TLC

(***************************************************************************)
(* Bounds of the model.                                                    *)
(***************************************************************************)
\* number of TypeChecker objects that may be constructed
MaxInstances == 2
\* longest `types` array handed to checkMultiple
MaxTypes == 2
\* number of Page objects that may be constructed
MaxPages == 2

(***************************************************************************)
(* The JavaScript values of the model.                                     *)
(***************************************************************************)
Undefined == "<undefined>"
Null == "<null>"
NaNValue == "<NaN>"
One == "<1>"
True == "<true>"
False == "<false>"
EmptyArray == "<[]>"
ArrayValue == "<array>"
PlainObject == "<{}>"
WrapperObject == "<object wrapper>"
AnonymousFunction == "<function anonymous>"
UserInterfaceClass == "<class UserInterface>"
UserInterfacePrototype == "<UserInterface.prototype>"
RegisterMethod == "<method register>"
HandlerF == "<function f>"
HandlerG == "<function g>"

\* class Component, class Button extends Component, class Page,
\* class TableRow extends Component, class Header extends Component,
\* class Footer extends Component
Classes ==
  {"<class Component>", "<class Button>", "<class Page>", "<class TableRow>",
   "<class Header>", "<class Footer>"}
Instances ==
  {"<new Component>", "<new Button>", "<new Page>", "<new TableRow 1>",
   "<new TableRow 2>", "<new Header 1>", "<new Header 2>", "<new Footer 1>",
   "<new Footer 2>"}

ClassOf(x) ==
  CASE x = "<new Component>" -> "<class Component>"
    [] x = "<new Button>" -> "<class Button>"
    [] x = "<new Page>" -> "<class Page>"
    [] x \in {"<new TableRow 1>", "<new TableRow 2>"} -> "<class TableRow>"
    [] x \in {"<new Header 1>", "<new Header 2>"} -> "<class Header>"
    [] x \in {"<new Footer 1>", "<new Footer 2>"} -> "<class Footer>"

\* the classes on the prototype chain of an instance of class c
Ancestors(c) ==
  CASE c = "<class Button>" -> {"<class Button>", "<class Component>"}
    [] c = "<class Component>" -> {"<class Component>"}
    [] c = "<class Page>" -> {"<class Page>"}
    [] c = "<class TableRow>" -> {"<class TableRow>", "<class Component>"}
    [] c = "<class Header>" -> {"<class Header>", "<class Component>"}
    [] c = "<class Footer>" -> {"<class Footer>", "<class Component>"}

\* typeof x
TypeOf(x) ==
  CASE x = Undefined -> "undefined"
    [] x \in {NaNValue, One} -> "number"
    [] x \in {True, False} -> "boolean"
    [] x \in Classes \cup {AnonymousFunction, UserInterfaceClass,
                           RegisterMethod, HandlerF, HandlerG} -> "function"
    [] x \in {Null, EmptyArray, ArrayValue, PlainObject, WrapperObject,
              UserInterfacePrototype} \cup Instances -> "object"
    [] OTHER -> "string"

\* Array.isArray(x)
IsArray(x) == x \in {EmptyArray, ArrayValue}

\* isNaN(x) for a value whose typeof is "number"
IsNaN(x) == x = NaNValue

\* the conversion of a value to a property key (ToPropertyKey / ToString)
ToPropertyKey(x) ==
  CASE x = Undefined -> "undefined"
    [] x = Null -> "null"
    [] x = NaNValue -> "NaN"
    [] x = One -> "1"
    [] x = True -> "true"
    [] x = False -> "false"
    [] x \in {EmptyArray, ArrayValue} -> ""
    [] x \in {PlainObject, WrapperObject, UserInterfacePrototype}
           \cup Instances -> "[object Object]"
    [] OTHER -> x

\* the truth value of x in a condition
Truthy(x) == x \notin {Undefined, Null, NaNValue, False, ""}

Bool(b) == IF b THEN True ELSE False

Return(v) == [kind |-> "return", val |-> v]
Throw(e) == [kind |-> "throw", val |-> e]

\* an instanceof that ignores the superclasses of x
InstanceOfExactClass(x, c) ==
  IF TypeOf(c) # "function" THEN Throw("TypeError")
  ELSE IF c = AnonymousFunction THEN Return(False)
  ELSE Return(Bool(x \in Instances /\ c = ClassOf(x)))

\* x instanceof c
InstanceOf(x, c) ==
  IF TypeOf(c) # "function" THEN Throw("TypeError")
  ELSE IF c = AnonymousFunction THEN Return(False)
  ELSE Return(Bool(x \in Instances /\ c \in Ancestors(ClassOf(x))))

(***************************************************************************)
(* TypeChecker.                                                            *)
(***************************************************************************)
VARIABLES
  tcInstance,   \* TypeChecker.#instance: 0 for null, else the object's index
  tcObjs,       \* the TypeChecker objects constructed so far: their #types
  tcLastReg,    \* history: property key -> constructor of the latest register
  ret,          \* the call made last and its outcome
  logged,       \* the errors the last call wrote to console.error
  uiMap,        \* UserInterface #registry: the Map from name to constructor
  uiOwn,        \* the own properties of the ui object
  uiProto,      \* the prototype of the ui object
  pages,        \* the Page objects constructed so far: their fields
  body,         \* the children of document.body, in document order
  mainClasses,  \* the class list of the main element of each page
  docTitle,     \* document.title
  faviconHref,  \* href of the link[rel~='icon'] element, if there is one
  sw,           \* the Switch or Checkbox under observation and its element
  calls,        \* the handler invocations the last call caused, in order
  table,        \* the rows of the header, body and footer sections of a Table
  para,         \* a Paragraph: its #rawText and its element's innerHTML
  heading,      \* a Heading: its #rawText and its element's child nodes
  widget        \* a Header, Footer, Button, Table, Checkbox or Icon: its
                \* private fields, class list and aria-invalid attribute

tcVars == <<tcInstance, tcObjs, tcLastReg>>
uiVars == <<uiMap, uiOwn, uiProto>>
pageVars == <<pages, body, mainClasses, docTitle, faviconHref>>
widgetVars == <<sw, calls, table, para, heading, widget>>
vars == <<tcVars, ret, logged, uiVars, pageVars, widgetVars>>

PrimitiveNames ==
  {"number", "string", "boolean", "function", "array", "object", "any"}

\* predicates that are a bare typeof test
PrimitiveTypeofOnly(name, x) ==
  CASE name = "array" -> IsArray(x)
    [] name = "any" -> TRUE
    [] OTHER -> TypeOf(x) = name

\* the predicates of the #types literal
Primitive(name, x) ==
  CASE name = "number" -> TypeOf(x) = "number" /\ ~IsNaN(x)
    [] name = "string" -> TypeOf(x) = "string"
    [] name = "boolean" -> TypeOf(x) = "boolean"
    [] name = "function" -> TypeOf(x) = "function"
    [] name = "array" -> IsArray(x)
    [] name = "object" -> x # Null /\ TypeOf(x) = "object" /\ ~IsArray(x)
    [] name = "any" -> TRUE

\* what a property of the #types object can hold
Slot(kind, arg) == [kind |-> kind, arg |-> arg]
UndefinedSlot == Slot("undefined", "")
ObjectPrototype == Slot("Object.prototype", "")

\* the #types field of a TypeChecker that lost the singleton race
UnseededTypes == [defined |-> FALSE, own |-> [n \in {} |-> UndefinedSlot],
                  proto |-> ObjectPrototype]

\* the #types field the first constructor installs
SeededTypes == [defined |-> TRUE,
                own |-> [n \in PrimitiveNames |-> Slot("prim", n)],
                proto |-> ObjectPrototype]

\* a property of Object.prototype, reached when #types has no own property
ObjectPrototypeGet(key) ==
  CASE key = "constructor" -> Slot("Object", "")
    [] key = "toString" -> Slot("Object.prototype.toString", "")
    [] key = "hasOwnProperty" -> Slot("Object.prototype.hasOwnProperty", "")
    [] OTHER -> UndefinedSlot

\* a property of Function.prototype, reached when the prototype of #types
\* has been replaced by a predicate function
FunctionPrototypeGet(key) ==
  CASE key = "constructor" -> Slot("Function", "")
    [] key = "toString" -> Slot("Function.prototype.toString", "")
    [] OTHER -> ObjectPrototypeGet(key)

\* this.#types[type]
TypesGet(t, key) ==
  IF key = "__proto__" THEN t.proto
  ELSE IF key \in DOMAIN t.own THEN t.own[key]
  ELSE IF t.proto = ObjectPrototype THEN ObjectPrototypeGet(key)
  ELSE FunctionPrototypeGet(key)

\* a register that keeps the first registration under a name
TypesSetFirstWins(t, key, slot) ==
  IF key = "__proto__"
    THEN IF t.proto = ObjectPrototype THEN [t EXCEPT !.proto = slot] ELSE t
    ELSE IF key \in DOMAIN t.own /\ t.own[key].kind = "instanceof" THEN t
    ELSE [t EXCEPT !.own =
            [n \in DOMAIN t.own \cup {key} |-> IF n = key THEN slot ELSE t.own[n]]]

\* this.#types[name] = slot
TypesSet(t, key, slot) ==
  IF key = "__proto__" THEN [t EXCEPT !.proto = slot]
  ELSE [t EXCEPT !.own =
          [n \in DOMAIN t.own \cup {key} |-> IF n = key THEN slot ELSE t.own[n]]]

\* slot?.(value) with `this` bound to the #types object t
CallSlot(slot, t, x) ==
  CASE slot.kind = "undefined" -> Return(Undefined)
    [] slot.kind = "prim" -> Return(Bool(Primitive(slot.arg, x)))
    [] slot.kind = "instanceof" -> InstanceOf(x, slot.arg)
    [] slot.kind = "Object.prototype" -> Throw("TypeError")
    [] slot.kind = "Object" ->
         Return(IF TypeOf(x) \in {"object", "function"} /\ x # Null
                  THEN x ELSE WrapperObject)
    [] slot.kind = "Object.prototype.toString" -> Return("[object Object]")
    [] slot.kind = "Object.prototype.hasOwnProperty" ->
         Return(Bool(ToPropertyKey(x) \in DOMAIN t.own))
    [] slot.kind = "Function" ->
         IF ToPropertyKey(x) = "[object Object]" THEN Throw("SyntaxError")
         ELSE Return(AnonymousFunction)
    [] slot.kind = "Function.prototype.toString" -> Throw("TypeError")

\* r ?? false
OrFalse(r) ==
  IF r.kind = "return" /\ r.val \in {Undefined, Null} THEN Return(False) ELSE r

\* check({ type, value }) on a TypeChecker whose #types is t
check(t, type, value) ==
  IF ~t.defined THEN Throw("TypeError")
  ELSE OrFalse(CallSlot(TypesGet(t, ToPropertyKey(type)), t, value))

\* the elements a for-of loop over `types` visits; not iterable otherwise
Iterable(types) == types.arr \/ TypeOf(types.val) = "string"

Elements(types) ==
  IF types.arr THEN types.elems
  ELSE CASE types.val = "ab" -> <<"a", "b">>
         [] types.val = "" -> <<>>
         [] OTHER -> <<types.val>>

\* for(let type of types) if(this.check({ type, value })) return true;
\* return false;
RECURSIVE CheckAny(_, _, _)
CheckAny(t, elems, value) ==
  IF elems = <<>> THEN Return(False)
  ELSE LET r == check(t, Head(elems), value)
       IN IF r.kind = "throw" THEN r
          ELSE IF Truthy(r.val) THEN Return(True)
          ELSE CheckAny(t, Tail(elems), value)

\* checkMultiple({ types, value }): the outcome and the errors logged
checkMultiple(t, types, value) ==
  LET isArray == check(t, "array", types.val)
  IN IF isArray.kind = "throw" THEN [res |-> isArray, log |-> {}]
     ELSE LET log == IF ~Truthy(isArray.val)
                       THEN {"checkMultipleTypeError"} ELSE {}
          IN IF ~Iterable(types)
               THEN [res |-> Throw("TypeError"), log |-> log]
               ELSE [res |-> CheckAny(t, Elements(types), value), log |-> log]

\* a constructor that always claims the singleton slot
InstanceAfterConstructAlways(cur, id) == id

\* TypeChecker.#instance after a constructor call that creates object id
InstanceAfterConstruct(cur, id) == IF cur # 0 THEN cur ELSE id

\* the #types field the constructor leaves in the new object
TypesAfterConstruct(cur) == IF cur # 0 THEN UnseededTypes ELSE SeededTypes

\* the errors the constructor logs
LogAfterConstruct(cur) == IF cur # 0 THEN {"singleInstanceError"} ELSE {}

\* the errors register logs
LogOfRegister(name, constructor) ==
  IF TypeOf(name) # "string" \/ TypeOf(constructor) # "function"
    THEN {"registrationOfNewTypeError"} ELSE {}

(***************************************************************************)
(* The inputs of the TypeChecker operations.                               *)
(***************************************************************************)
SeqsUpTo(S, n) == UNION {[1..k -> S] : k \in 0..n}

RegisterNames == {"component", "string", "__proto__"}
RegisterConstructors == {"<class Component>", "<class Button>", Undefined}
CheckNames ==
  PrimitiveNames \cup
    {"component", "nosuch", "constructor", "toString", "__proto__"}
NoTypes == [arr |-> FALSE, elems |-> <<>>, val |-> Undefined]
NoRegistration == "<none>"
PropertyKeys ==
  {ToPropertyKey(n) : n \in RegisterNames \cup CheckNames} \cup
    {"button", "table-row", "header", "footer"}

Call(op, obj, type, types, value, res) ==
  [op |-> op, obj |-> obj, type |-> type, types |-> types, value |-> value,
   kind |-> res.kind, val |-> res.val]

(***************************************************************************)
(* The TypeChecker operations.                                             *)
(***************************************************************************)
\* new TypeChecker() and TypeChecker.getInstance()
TCConstruct(op) ==
  /\ Len(tcObjs) < MaxInstances
  /\ LET id == Len(tcObjs) + 1
     IN /\ tcInstance' = InstanceAfterConstruct(tcInstance, id)
        /\ tcObjs' = Append(tcObjs, TypesAfterConstruct(tcInstance))
        /\ logged' = LogAfterConstruct(tcInstance)
        /\ ret' = Call(op, id, Undefined, NoTypes, Undefined,
                       Return("<TypeChecker>"))
  /\ UNCHANGED <<tcLastReg, uiVars, pageVars, widgetVars>>

New == TCConstruct("new")

GetInstance == TCConstruct("getInstance")

\* obj.register({ name, constructor })
Register(obj, name, constructor) ==
  LET key == ToPropertyKey(name)
  IN /\ logged' = LogOfRegister(name, constructor)
     /\ IF ~tcObjs[obj].defined
          THEN /\ ret' = Call("register", obj, name, NoTypes, constructor,
                              Throw("TypeError"))
               /\ UNCHANGED <<tcObjs, tcLastReg>>
          ELSE /\ tcObjs' = [tcObjs EXCEPT
                    ![obj] = TypesSet(@, key, Slot("instanceof", constructor))]
               /\ tcLastReg' = [tcLastReg EXCEPT ![key] = constructor]
               /\ ret' = Call("register", obj, name, NoTypes, constructor,
                              Return(Undefined))
     /\ UNCHANGED <<tcInstance, uiVars, pageVars, widgetVars>>

\* obj.check({ type, value })
Check(obj, type, value) ==
  /\ ret' = Call("check", obj, type, NoTypes, value,
                 check(tcObjs[obj], type, value))
  /\ logged' = {}
  /\ UNCHANGED <<tcVars, uiVars, pageVars, widgetVars>>

\* obj.checkMultiple({ types, value })
CheckMultiple(obj, types, value) ==
  LET out == checkMultiple(tcObjs[obj], types, value)
  IN /\ ret' = Call("checkMultiple", obj, Undefined, types, value, out.res)
     /\ logged' = out.log
     /\ UNCHANGED <<tcVars, uiVars, pageVars, widgetVars>>

(***************************************************************************)
(* UserInterface: the registry of widget constructors.                     *)
(***************************************************************************)
\* the global `typechecker`: the first TypeChecker constructed
typechecker == tcObjs[1]

\* the #types of `typechecker` once the script has run its register calls
LoadedTypes ==
  TypesSet(
    TypesSet(
      TypesSet(
        TypesSet(
          TypesSet(SeededTypes, "button",
                   Slot("instanceof", "<class Button>")),
          "component", Slot("instanceof", "<class Component>")),
        "footer", Slot("instanceof", "<class Footer>")),
      "header", Slot("instanceof", "<class Header>")),
    "table-row", Slot("instanceof", "<class TableRow>"))

\* this[key] on the ui object
UIGet(own, proto, key) ==
  IF key = "__proto__" THEN proto
  ELSE IF key \in DOMAIN own THEN own[key]
  ELSE IF proto = UserInterfacePrototype
    THEN CASE key = "register" -> RegisterMethod
           [] key = "constructor" -> UserInterfaceClass
           [] OTHER -> Undefined
  ELSE Undefined

\* this[name] = constructor on the ui object: the properties afterwards
UISet(own, proto, key, value) ==
  IF key = "__proto__"
    THEN [own |-> own,
          proto |-> IF TypeOf(value) \in {"object", "function"}
                      THEN value ELSE proto]
    ELSE [own |-> [n \in DOMAIN own \cup {key} |->
                     IF n = key THEN value ELSE own[n]],
          proto |-> proto]

\* this.#registry.set(name, constructor)
MapSet(map, name, value) ==
  [n \in DOMAIN map \cup {name} |-> IF n = name THEN value ELSE map[n]]

\* ui.register({ name, constructor })
UIRegister(name, constructor) ==
  LET method == UIGet(uiOwn, uiProto, "register")
      isString == check(typechecker, "string", name)
      isFunction == check(typechecker, "function", constructor)
      nameLog == IF isString.kind = "return" /\ ~Truthy(isString.val)
                   THEN {"componentNameTypeError"} ELSE {}
      constructorLog ==
        IF isFunction.kind = "return" /\ ~Truthy(isFunction.val)
          THEN {"componentConstructorTypeError"} ELSE {}
      after == UISet(uiOwn, uiProto, ToPropertyKey(name), constructor)
  IN /\ IF method # RegisterMethod
          THEN /\ ret' = Call("ui.register", 0, name, NoTypes, constructor,
                              Throw("TypeError"))
               /\ logged' = {}
               /\ UNCHANGED uiVars
          ELSE IF isString.kind = "throw"
          THEN /\ ret' = Call("ui.register", 0, name, NoTypes, constructor,
                              isString)
               /\ logged' = {}
               /\ UNCHANGED uiVars
          ELSE IF isFunction.kind = "throw"
          THEN /\ ret' = Call("ui.register", 0, name, NoTypes, constructor,
                              isFunction)
               /\ logged' = nameLog
               /\ UNCHANGED uiVars
          ELSE /\ ret' = Call("ui.register", 0, name, NoTypes, constructor,
                              Return(Undefined))
               /\ logged' = nameLog \cup constructorLog
               /\ uiMap' = MapSet(uiMap, name, constructor)
               /\ uiOwn' = after.own
               /\ uiProto' = after.proto
     /\ UNCHANGED <<tcVars, pageVars, widgetVars>>

(***************************************************************************)
(* Page: the structural root of a document.                                *)
(***************************************************************************)
\* !typechecker.check({ type, value }) in a setter: the error it logs
TypeErrorLog(type, value, error) ==
  LET r == check(typechecker, type, value)
  IN IF r.kind = "return" /\ ~Truthy(r.val) THEN {error} ELSE {}

\* a constructor that never finds an earlier page
PageExistsNever(children) == FALSE

\* document.body.querySelector('main')
PageExists(children) == \E i \in 1..Len(children) : children[i].tag = "main"

\* a container setter that leaves the class of the earlier container
ContainerClassesKeepingEarlier(classes, value) ==
  classes \cup
    (IF value = "fluid" THEN {"container-fluid"}
     ELSE IF value = "fixed" THEN {"container"}
     ELSE {})

\* the class list of the target element (the main element of a Page, the
\* element of a Header or Footer) after the container setter ran with value
ContainerClasses(classes, value) ==
  (classes \ {"container-fluid", "container"}) \cup
    (IF value = "fluid" THEN {"container-fluid"}
     ELSE IF value = "fixed" THEN {"container"}
     ELSE {})

\* the container getter of Page, Header and Footer on a class list
Container(classes) ==
  IF "container-fluid" \in classes THEN "fluid"
  ELSE IF "container" \in classes THEN "fixed"
  ELSE Null

\* the errors the container setter logs
ContainerLog(value) ==
  TypeErrorLog("string", value, "containerTypeError") \cup
    (IF value \in {"fluid", "fixed"} THEN {} ELSE {"containerInvalidError"})

\* the fields of a Page whose constructor returned early
UnsetPage == [main |-> 0, header |-> Undefined, footer |-> Undefined]

\* parentNode.removeChild(element) for the main element of page p
RemoveChild(children, p) ==
  SelectSeq(children, LAMBDA c : ~(c.tag = "main" /\ c.page = p))

\* whether the main element of page p has document.body as its parentNode
InBody(children, p) ==
  \E i \in 1..Len(children) : children[i].tag = "main" /\ children[i].page = p

PageContainers == {Undefined, "fluid", "fixed", "wide"}
PageOptions ==
  [container : PageContainers, title : {Undefined, "Home"},
   favicon : {Undefined, "star.png"}]

\* new ui.Page(options)
PageConstruct(options) ==
  /\ Len(pages) < MaxPages
  /\ UIGet(uiOwn, uiProto, "Component") = "<class Component>"
  /\ LET id == Len(pages) + 1
         container == IF Truthy(options.container)
                        THEN options.container ELSE "fluid"
     IN /\ ret' = Call("new Page", id, Undefined, NoTypes, options.container,
                       Return("<Page>"))
        /\ IF PageExists(body)
             THEN /\ logged' = {"pageExistsError"}
                  /\ pages' = Append(pages, UnsetPage)
                  /\ mainClasses' = Append(mainClasses, {})
                  /\ UNCHANGED <<body, docTitle, faviconHref>>
             ELSE /\ pages' = Append(pages, [UnsetPage EXCEPT !.main = id])
                  /\ body' = Append(body, [tag |-> "main", page |-> id])
                  /\ mainClasses' =
                       Append(mainClasses, ContainerClasses({}, container))
                  /\ faviconHref' = IF Truthy(options.favicon)
                                      THEN ToPropertyKey(options.favicon)
                                      ELSE faviconHref
                  /\ docTitle' = IF Truthy(options.title)
                                   THEN ToPropertyKey(options.title)
                                   ELSE docTitle
                  /\ logged' =
                       ContainerLog(container) \cup
                       (IF Truthy(options.favicon)
                          THEN TypeErrorLog("string", options.favicon,
                                            "faviconTypeError")
                          ELSE {}) \cup
                       (IF Truthy(options.title)
                          THEN TypeErrorLog("string", options.title,
                                            "titleTypeError")
                          ELSE {})
  /\ UNCHANGED <<widgetVars, tcVars, uiVars>>

\* page.container = value
SetContainer(p, value) ==
  /\ IF pages[p].main = 0
       THEN /\ ret' = Call("set container", p, Undefined, NoTypes, value,
                           Throw("TypeError"))
            /\ logged' = TypeErrorLog("string", value, "containerTypeError")
            /\ UNCHANGED mainClasses
       ELSE /\ ret' = Call("set container", p, Undefined, NoTypes, value,
                           Return(Undefined))
            /\ logged' = ContainerLog(value)
            /\ mainClasses' =
                 [mainClasses EXCEPT ![p] = ContainerClasses(@, value)]
  /\ UNCHANGED <<widgetVars, tcVars, uiVars, pages, body, docTitle,
               faviconHref>>

\* page.container
GetContainer(p) ==
  /\ ret' = Call("get container", p, Undefined, NoTypes, Undefined,
                 IF pages[p].main = 0 THEN Throw("TypeError")
                 ELSE Return(Container(mainClasses[p])))
  /\ logged' = {}
  /\ UNCHANGED <<widgetVars, tcVars, uiVars, pageVars>>

\* page.title = value
SetTitle(p, value) ==
  /\ ret' = Call("set title", p, Undefined, NoTypes, value, Return(Undefined))
  /\ logged' = TypeErrorLog("string", value, "titleTypeError")
  /\ docTitle' = ToPropertyKey(value)
  /\ UNCHANGED <<widgetVars, tcVars, uiVars, pages, body, mainClasses,
               faviconHref>>

\* page.favicon = value
SetFavicon(p, value) ==
  /\ ret' = Call("set favicon", p, Undefined, NoTypes, value,
                 Return(Undefined))
  /\ logged' = TypeErrorLog("string", value, "faviconTypeError")
  /\ faviconHref' = ToPropertyKey(value)
  /\ UNCHANGED <<widgetVars, tcVars, uiVars, pages, body, mainClasses,
               docTitle>>

\* page.main.remove()
RemoveMain(p) ==
  /\ IF pages[p].main = 0
       THEN /\ ret' = Call("main.remove", p, Undefined, NoTypes, Undefined,
                           Throw("TypeError"))
            /\ logged' = {}
            /\ UNCHANGED body
       ELSE /\ ret' = Call("main.remove", p, Undefined, NoTypes, Undefined,
                           Return(Undefined))
            /\ IF InBody(body, p)
                 THEN /\ body' = RemoveChild(body, p)
                      /\ logged' = {}
                 ELSE /\ logged' = {"removeComponentError"}
                      /\ UNCHANGED body
  /\ UNCHANGED <<widgetVars, tcVars, uiVars, pages, mainClasses, docTitle,
               faviconHref>>

\* the child of document.body that is the element of a Header or Footer
Element(component) == [tag |-> component, page |-> 0]

\* an insertion that appends the element to the children
InsertAppending(children, element, p, after) ==
  Append(SelectSeq(children, LAMBDA c : c # element), element)

\* parentNode.insertBefore(element, reference) among the children that hold
\* the main element of page p: the reference is that main element, or its
\* nextSibling when `after` holds (the element is appended when there is
\* none); an element that is among the children is first removed from them
Insert(children, element, p, after) ==
  LET others == SelectSeq(children, LAMBDA c : c # element)
      main == CHOOSE i \in 1..Len(others) :
                others[i].tag = "main" /\ others[i].page = p
      at == IF after THEN main ELSE main - 1
  IN SubSeq(others, 1, at) \o <<element>> \o
       SubSeq(others, at + 1, Len(others))

\* page.addHeader({ header })
AddHeader(p, header) ==
  /\ logged' = TypeErrorLog("header", header, "headerTypeError")
  /\ IF pages[p].main = 0
       THEN /\ ret' = Call("addHeader", p, Undefined, NoTypes, header,
                           Throw("TypeError"))
            /\ UNCHANGED <<pages, body>>
       ELSE /\ ret' = Call("addHeader", p, Undefined, NoTypes, header,
                           Return(Undefined))
            /\ body' = IF InBody(body, p)
                         THEN Insert(body, Element(header), p, FALSE)
                         ELSE body
            /\ pages' = [pages EXCEPT ![p].header = header]
  /\ UNCHANGED <<widgetVars, tcVars, uiVars, mainClasses, docTitle,
               faviconHref>>

\* page.addFooter({ footer })
AddFooter(p, footer) ==
  /\ logged' = TypeErrorLog("footer", footer, "footerTypeError")
  /\ IF pages[p].main = 0
       THEN /\ ret' = Call("addFooter", p, Undefined, NoTypes, footer,
                           Throw("TypeError"))
            /\ UNCHANGED <<pages, body>>
       ELSE /\ ret' = Call("addFooter", p, Undefined, NoTypes, footer,
                           Return(Undefined))
            /\ body' = IF InBody(body, p)
                         THEN Insert(body, Element(footer), p, TRUE)
                         ELSE body
            /\ pages' = [pages EXCEPT ![p].footer = footer]
  /\ UNCHANGED <<widgetVars, tcVars, uiVars, mainClasses, docTitle,
               faviconHref>>

\* page.removeHeader()
RemoveHeader(p) ==
  /\ ret' = Call("removeHeader", p, Undefined, NoTypes, Undefined,
                 Return(Undefined))
  /\ logged' = {}
  /\ IF /\ Truthy(pages[p].header)
        /\ \E i \in 1..Len(body) : body[i] = Element(pages[p].header)
       THEN /\ body' = SelectSeq(body,
                                 LAMBDA c : c # Element(pages[p].header))
            /\ pages' = [pages EXCEPT ![p].header = Null]
       ELSE UNCHANGED <<pages, body>>
  /\ UNCHANGED <<widgetVars, tcVars, uiVars, mainClasses, docTitle,
               faviconHref>>

\* page.removeFooter()
RemoveFooter(p) ==
  /\ ret' = Call("removeFooter", p, Undefined, NoTypes, Undefined,
                 Return(Undefined))
  /\ logged' = {}
  /\ IF /\ Truthy(pages[p].footer)
        /\ \E i \in 1..Len(body) : body[i] = Element(pages[p].footer)
       THEN /\ body' = SelectSeq(body,
                                 LAMBDA c : c # Element(pages[p].footer))
            /\ pages' = [pages EXCEPT ![p].footer = Null]
       ELSE UNCHANGED <<pages, body>>
  /\ UNCHANGED <<widgetVars, tcVars, uiVars, mainClasses, docTitle,
               faviconHref>>

(***************************************************************************)
(* Switch and Checkbox: an input element of type checkbox with an onChange *)
(* handler, and the onTap handler every Component has.  One such object is *)
(* observed at a time; constructing another replaces it.                   *)
(***************************************************************************)
\* no Switch or Checkbox constructed yet
NoSwitch ==
  [kind |-> "none", checked |-> FALSE, attr |-> FALSE, prop |-> FALSE,
   dirty |-> FALSE, onChange |-> Undefined, onTap |-> Undefined,
   change |-> <<>>, click |-> <<>>]

\* x == false
LooseEqualsFalse(x) == x \in {False, "", EmptyArray}

\* x == true
LooseEqualsTrue(x) == x \in {True, One}

\* the handler invocations of dispatching an event to listeners, in order;
\* an onChange listener hands event.target.checked to its handler
Dispatch(s, listeners, argument) ==
  [i \in 1..Len(listeners) |->
     [fn |-> listeners[i], arg |-> argument, seen |-> Bool(s.checked),
      attr |-> s.attr]]

\* #emitChange()
EmitChange(s) == Dispatch(s, s.change, Bool(s.prop))

\* the object after on(tap) (value TRUE) or off(tap) (value FALSE): the
\* checked attribute is set or removed, and the checkedness of the element
\* follows the attribute until the user has changed it
Turned(s, value) ==
  [s EXCEPT !.attr = value, !.prop = IF s.dirty THEN @ ELSE value,
            !.checked = value]

\* an on/off that dispatches whatever tap is
TurnCallsAlways(s, value, tap) == EmitChange(Turned(s, value))

\* an on/off that dispatches before it updates the attribute and the field
TurnCallsBeforeUpdate(s, value, tap) ==
  IF LooseEqualsFalse(IF tap = Undefined THEN False ELSE tap)
    THEN EmitChange(s) ELSE <<>>

\* the handler invocations of on(tap) or off(tap), tap defaulting to false
TurnCalls(s, value, tap) ==
  IF LooseEqualsFalse(IF tap = Undefined THEN False ELSE tap)
    THEN EmitChange(Turned(s, value)) ELSE <<>>

\* a toggle that always switches on
ToggleTargetAlwaysOn(s) == TRUE

\* toggle: off when #checked is true, else on
ToggleTarget(s) == ~s.checked

\* a setter that adds the new listener and leaves the previous one installed
InstalledKeepingPrevious(listeners, previous, handler, fresh) ==
  IF ~fresh /\ \E i \in 1..Len(listeners) : listeners[i] = handler
    THEN listeners ELSE Append(listeners, handler)

\* the listeners after removeEventListener(previous) when a previous handler
\* is set, then addEventListener(handler); adding a function that is already
\* a listener changes nothing, and each onChange arrow function is new
Installed(listeners, previous, handler, fresh) ==
  LET removed == IF Truthy(previous)
                   THEN SelectSeq(listeners, LAMBDA l : l # previous)
                   ELSE listeners
  IN IF ~fresh /\ \E i \in 1..Len(removed) : removed[i] = handler
       THEN removed ELSE Append(removed, handler)

\* the object after `this.onChange = value`
WithOnChange(s, value) ==
  [s EXCEPT !.change = Installed(s.change, s.onChange, value, TRUE),
            !.onChange = value]

\* the object after `this.onTap = value`
WithOnTap(s, value) ==
  [s EXCEPT !.click = Installed(s.click, s.onTap, value, FALSE),
            !.onTap = value]

\* a constructor that installs options.onChange before it applies
\* options.checked
ConstructedListenerFirst(kind, options) ==
  LET s0 == [NoSwitch EXCEPT !.kind = kind]
      s1 == IF Truthy(options.onTap) THEN WithOnTap(s0, options.onTap) ELSE s0
      s2 == IF Truthy(options.onChange)
              THEN WithOnChange(s1, options.onChange) ELSE s1
      value == IF Truthy(options.checked) THEN options.checked ELSE False
  IN [sw |-> Turned(s2, LooseEqualsTrue(value)),
      calls |-> TurnCalls(s2, LooseEqualsTrue(value), Undefined)]

\* the object a constructor leaves and the handler invocations it caused:
\* super() applies options.onTap, then `this.checked = options.checked ||
\* false`, then options.onChange if it is truthy
Constructed(kind, options) ==
  LET s0 == [NoSwitch EXCEPT !.kind = kind]
      s1 == IF Truthy(options.onTap) THEN WithOnTap(s0, options.onTap) ELSE s0
      value == IF Truthy(options.checked) THEN options.checked ELSE False
      s2 == Turned(s1, LooseEqualsTrue(value))
  IN [sw |-> IF Truthy(options.onChange)
               THEN WithOnChange(s2, options.onChange) ELSE s2,
      calls |-> TurnCalls(s1, LooseEqualsTrue(value), Undefined)]

\* new ui.Switch(options), new ui.Checkbox(options)
Construct(kind, options) ==
  /\ sw' = Constructed(kind, options).sw
  /\ calls' = Constructed(kind, options).calls
  /\ ret' = Call("new", 0, Undefined, NoTypes, options.checked,
                 Return(IF kind = "switch" THEN "<Switch>"
                        ELSE "<Checkbox>"))
  /\ logged' =
       TypeErrorLog("boolean",
                    IF Truthy(options.checked) THEN options.checked ELSE False,
                    "checkedTypeError") \cup
       (IF Truthy(options.onTap)
          THEN TypeErrorLog("function", options.onTap, "onTapTypeError")
          ELSE {}) \cup
       (IF Truthy(options.onChange)
          THEN TypeErrorLog("function", options.onChange, "onChangeTypeError")
          ELSE {})
  /\ UNCHANGED <<tcVars, uiVars, pageVars, table, para, heading, widget>>

\* switch.checked = value
SetChecked(value) ==
  /\ sw.kind # "none"
  /\ sw' = Turned(sw, LooseEqualsTrue(value))
  /\ calls' = TurnCalls(sw, LooseEqualsTrue(value), Undefined)
  /\ ret' = Call("set checked", 0, Undefined, NoTypes, value,
                 Return(Undefined))
  /\ logged' = TypeErrorLog("boolean", value, "checkedTypeError")
  /\ UNCHANGED <<tcVars, uiVars, pageVars, table, para, heading, widget>>

\* switch.on(tap), checkbox.check(tap)
On(tap) ==
  /\ sw.kind # "none"
  /\ sw' = Turned(sw, TRUE)
  /\ calls' = TurnCalls(sw, TRUE, tap)
  /\ ret' = Call("on", 0, Undefined, NoTypes, tap, Return(Undefined))
  /\ logged' = {}
  /\ UNCHANGED <<tcVars, uiVars, pageVars, table, para, heading, widget>>

\* switch.off(tap), checkbox.uncheck(tap)
Off(tap) ==
  /\ sw.kind # "none"
  /\ sw' = Turned(sw, FALSE)
  /\ calls' = TurnCalls(sw, FALSE, tap)
  /\ ret' = Call("off", 0, Undefined, NoTypes, tap, Return(Undefined))
  /\ logged' = {}
  /\ UNCHANGED <<tcVars, uiVars, pageVars, table, para, heading, widget>>

\* switch.toggle(tap), checkbox.toggle(tap)
Toggle(tap) ==
  /\ sw.kind # "none"
  /\ sw' = Turned(sw, ToggleTarget(sw))
  /\ calls' = TurnCalls(sw, ToggleTarget(sw), tap)
  /\ ret' = Call("toggle", 0, Undefined, NoTypes, tap, Return(Undefined))
  /\ logged' = {}
  /\ UNCHANGED <<tcVars, uiVars, pageVars, table, para, heading, widget>>

\* switch.onChange = value
SetOnChange(value) ==
  /\ sw.kind # "none"
  /\ sw' = WithOnChange(sw, value)
  /\ calls' = <<>>
  /\ ret' = Call("set onChange", 0, Undefined, NoTypes, value,
                 Return(Undefined))
  /\ logged' = TypeErrorLog("function", value, "onChangeTypeError")
  /\ UNCHANGED <<tcVars, uiVars, pageVars, table, para, heading, widget>>

\* component.onTap = value
SetOnTap(value) ==
  /\ sw.kind # "none"
  /\ sw' = WithOnTap(sw, value)
  /\ calls' = <<>>
  /\ ret' = Call("set onTap", 0, Undefined, NoTypes, value, Return(Undefined))
  /\ logged' = TypeErrorLog("function", value, "onTapTypeError")
  /\ UNCHANGED <<tcVars, uiVars, pageVars, table, para, heading, widget>>

\* the user clicks the element: its checkedness flips, then the click
\* listeners and the change listeners run; #checked is not written
UserTap ==
  /\ sw.kind # "none"
  /\ LET s == [sw EXCEPT !.prop = ~@, !.dirty = TRUE]
     IN /\ sw' = s
        /\ calls' = Dispatch(s, s.click, "<event>") \o EmitChange(s)
  /\ ret' = Call("tap", 0, Undefined, NoTypes, Undefined, Return(Undefined))
  /\ logged' = {}
  /\ UNCHANGED <<tcVars, uiVars, pageVars, table, para, heading, widget>>

(***************************************************************************)
(* Table: a table element with a thead, a tbody and a tfoot section.       *)
(***************************************************************************)
\* an addRow that puts a row of unrecognized scope into the body
ScopeSectionDefaultBody(scope) ==
  IF scope \in {"header", "footer"} THEN scope ELSE "body"

\* the section the if-chain of addRow selects, "none" for its else branch
ScopeSection(scope) ==
  IF scope \in {"header", "body", "footer"} THEN scope ELSE "none"

\* section.element.appendChild(row.element): a node that already has a
\* parent is first removed from it
AppendChild(t, section, row) ==
  LET Others(rows) == SelectSeq(rows, LAMBDA r : r # row)
  IN [k \in DOMAIN t |->
        IF k = section THEN Append(Others(t[k]), row) ELSE Others(t[k])]

\* table.addRow({ row, scope })
AddRow(row, scope) ==
  /\ LET section == ScopeSection(scope)
         component == check(typechecker, "component", row)
         appended == section # "none" /\ Truthy(component.val)
         thrown == section # "none" /\ ~Truthy(component.val)
     IN /\ table' = IF appended THEN AppendChild(table, section, row)
                    ELSE table
        /\ ret' = Call("addRow", 0, scope, NoTypes, row,
                       IF thrown THEN Throw("TypeError")
                       ELSE Return(Undefined))
        /\ logged' =
             TypeErrorLog("table-row", row, "rowTypeError") \cup
             TypeErrorLog("string", scope, "scopeTypeError") \cup
             (IF section = "none" THEN {"invalidScopeError"} ELSE {})
  /\ UNCHANGED <<tcVars, uiVars, pageVars, sw, calls, para, heading, widget>>

(***************************************************************************)
(* Paragraph and Heading text.  A JavaScript string whose characters       *)
(* matter is a sequence of one-character strings.                          *)
(***************************************************************************)
\* most segments a text handed to a text setter is built from
MaxSegments == 2

\* the tagMap of the text getter and setter, in its order
TagMap ==
  << <<"s", "t", "r", "o", "n", "g">>, <<"b">>, <<"i">>, <<"e", "m">>,
     <<"c", "i", "t", "e">>, <<"d", "e", "l">>, <<"i", "n", "s">>,
     <<"k", "b", "d">>, <<"m", "a", "r", "k">>, <<"s">>,
     <<"s", "m", "a", "l", "l">>, <<"s", "u", "b">>, <<"s", "u", "p">>,
     <<"u">> >>

\* whether pat occurs in str at position i
StartsAt(str, i, pat) ==
  /\ i + Len(pat) - 1 <= Len(str)
  /\ \A k \in 1..Len(pat) : str[i + k - 1] = pat[k]

\* the first position from `from` on where pat occurs in str, 0 if none
FirstMatch(str, from, pat) ==
  LET found == {j \in from..Len(str) : StartsAt(str, j, pat)}
  IN IF found = {} THEN 0
     ELSE CHOOSE j \in found : \A k \in found : j <= k

\* str.replace(/pre(.+?)suf/g, 'npre$1nsuf') from position i on: the lazy
\* group takes at least one character and ends at the first suf after it
RECURSIVE ReplaceGroup(_, _, _)
ReplaceGroup(str, i, rule) ==
  IF i > Len(str) THEN <<>>
  ELSE LET start == i + Len(rule.pre)
           j == IF StartsAt(str, i, rule.pre)
                  THEN FirstMatch(str, start + 1, rule.suf) ELSE 0
       IN IF j = 0 THEN <<str[i]>> \o ReplaceGroup(str, i + 1, rule)
          ELSE rule.npre \o SubSeq(str, start, j - 1) \o rule.nsuf \o
               ReplaceGroup(str, j + Len(rule.suf), rule)

\* str.replace(/pre(.+?)mid(.+?)suf/g, 'npre$2nmid$1nsuf') from position i
\* on: the first group ends at the first mid that a suf follows after at
\* least one character, the second group at the first such suf
RECURSIVE ReplaceTwoGroups(_, _, _)
ReplaceTwoGroups(str, i, rule) ==
  IF i > Len(str) THEN <<>>
  ELSE LET start == i + Len(rule.pre)
           mids == {m \in (start + 1)..Len(str) :
                      /\ StartsAt(str, m, rule.mid)
                      /\ FirstMatch(str, m + Len(rule.mid) + 1, rule.suf) # 0}
           m == IF StartsAt(str, i, rule.pre) /\ mids # {}
                  THEN CHOOSE x \in mids : \A y \in mids : x <= y ELSE 0
           j == FirstMatch(str, m + Len(rule.mid) + 1, rule.suf)
       IN IF m = 0 THEN <<str[i]>> \o ReplaceTwoGroups(str, i + 1, rule)
          ELSE rule.npre \o SubSeq(str, m + Len(rule.mid), j - 1) \o
               rule.nmid \o SubSeq(str, start, m - 1) \o rule.nsuf \o
               ReplaceTwoGroups(str, j + Len(rule.suf), rule)

AbbrOpen == <<"<", "a", "b", "b", "r", " ", "t", "i", "t", "l", "e", "=", "\"">>
AbbrClose == <<"<", "/", "a", "b", "b", "r", ">">>
AbbrBracket == <<"[", "a", "b", "b", "r", ":">>

\* the abbr replace of the setter (toElement),
\* /\[abbr:(.+?)\|(.+?)\]/g -> '<abbr title="$2">$1</abbr>', and of the
\* getter, /<abbr title="(.+?)">(.+?)<\/abbr>/g -> '[abbr:$2|$1]'
AbbrRule(toElement) ==
  IF toElement
    THEN [pre |-> AbbrBracket, mid |-> <<"|">>, suf |-> <<"]">>,
          npre |-> AbbrOpen, nmid |-> <<"\"", ">">>, nsuf |-> AbbrClose]
    ELSE [pre |-> AbbrOpen, mid |-> <<"\"", ">">>, suf |-> AbbrClose,
          npre |-> AbbrBracket, nmid |-> <<"|">>, nsuf |-> <<"]">>]

\* the replace of the setter loop (toElement),
\* new RegExp(`\\[${tag}:(.+?)\\]`, 'g') -> `<${tag}>$1</${tag}>`, and of
\* the getter loop, new RegExp(`<${tag}>(.+?)<\/${tag}>`, 'g') ->
\* `[${tag}:$1]`
TagRule(tag, toElement) ==
  LET bracket == <<"[">> \o tag \o <<":">>
      open == <<"<">> \o tag \o <<">">>
      close == <<"<", "/">> \o tag \o <<">">>
  IN IF toElement
       THEN [pre |-> bracket, suf |-> <<"]">>, npre |-> open, nsuf |-> close]
       ELSE [pre |-> open, suf |-> close, npre |-> bracket, nsuf |-> <<"]">>]

\* the for-loop over tagMap from its n-th tag on: the loop of the setter
\* (toElement) or the loop of the getter
RECURSIVE ForEachTag(_, _, _)
ForEachTag(str, n, toElement) ==
  IF n > Len(TagMap) THEN str
  ELSE ForEachTag(ReplaceGroup(str, 1, TagRule(TagMap[n], toElement)),
                  n + 1, toElement)

\* `formatted` in the text setter of Paragraph
Formatted(value) ==
  ForEachTag(ReplaceTwoGroups(value, 1, AbbrRule(TRUE)), 1, TRUE)

\* `raw` at the end of the text getter of Paragraph
Bracketed(html) ==
  ForEachTag(ReplaceTwoGroups(html, 1, AbbrRule(FALSE)), 1, FALSE)

\* what element.innerHTML returns after `element.innerHTML = html`, for html
\* made of the elements the setter writes around text that has no `<`, `>`,
\* `"` and no character reference: the tags are kept and a `&` of the text
\* is written as `&amp;`
RECURSIVE InnerHTML(_)
InnerHTML(html) ==
  IF html = <<>> THEN <<>>
  ELSE (IF Head(html) = "&" THEN <<"&", "a", "m", "p", ";">>
        ELSE <<Head(html)>>) \o InnerHTML(Tail(html))

\* [tag:content] as written by a caller
Group(tag, content) == <<"[">> \o tag \o <<":">> \o content \o <<"]">>

RECURSIVE Concat(_)
Concat(segs) == IF segs = <<>> THEN <<>> ELSE Head(segs) \o Concat(Tail(segs))

\* the texts handed to the text setters: sequences of plain characters,
\* [tag:content] groups and an [abbr:text|title] group, with bracket-free
\* content
Texts ==
  LET segments ==
        {<<"a">>, <<"&">>, Group(<<"b">>, <<"a">>), Group(<<"s">>, <<"a">>),
         Group(<<"e", "m">>, <<"a">>), Group(<<"s", "u", "p">>, <<"a">>),
         AbbrBracket \o <<"a", "|", "t", "]">>}
  IN {Concat(segs) : segs \in SeqsUpTo(segments, MaxSegments)}

\* paragraph.text = value
ParagraphSetText(value) ==
  /\ para' = [set |-> TRUE, raw |-> value, html |-> InnerHTML(Formatted(value))]
  /\ ret' = Call("set text", 0, Undefined, NoTypes, value, Return(Undefined))
  /\ logged' = {}
  /\ UNCHANGED <<tcVars, uiVars, pageVars, sw, calls, table, heading, widget>>

\* paragraph.text
ParagraphGetText ==
  /\ ret' = Call("get text", 0, Undefined, NoTypes, Undefined,
                 Return(IF ~para.set \/ para.raw = <<>> THEN <<>>
                        ELSE Bracketed(para.html)))
  /\ logged' = {}
  /\ UNCHANGED <<tcVars, uiVars, pageVars, widgetVars>>

\* a Heading text setter that converts markup as the Paragraph setter does
HeadingContentFormatted(value) == InnerHTML(Formatted(value))

\* the innerHTML of a Heading after `this.element.textContent = value`: one
\* text node holding value
HeadingContent(value) == InnerHTML(value)

\* heading.text = value
HeadingSetText(value) ==
  /\ heading' = [set |-> TRUE, raw |-> value, html |-> HeadingContent(value)]
  /\ ret' = Call("set text", 0, Undefined, NoTypes, value, Return(Undefined))
  /\ logged' = {}
  /\ UNCHANGED <<tcVars, uiVars, pageVars, sw, calls, table, para, widget>>

\* heading.text
HeadingGetText ==
  /\ ret' = Call("get text", 0, Undefined, NoTypes, Undefined,
                 Return(IF heading.set THEN heading.raw ELSE Undefined))
  /\ logged' = {}
  /\ UNCHANGED <<tcVars, uiVars, pageVars, widgetVars>>

(***************************************************************************)
(* ColorManager.isHexColor.                                                *)
(***************************************************************************)
\* longest string handed to isHexColor
MaxColorLen == 7

\* the quantifier {6} of the pattern
HexDigits == 6

\* the class [0-9a-fA-F]
HexClass ==
  {"0", "1", "2", "3", "4", "5", "6", "7", "8", "9", "a", "b", "c", "d", "e",
   "f", "A", "B", "C", "D", "E", "F"}

\* the arguments handed to isHexColor: every string over a few characters up
\* to the bound, the 8-digit form, a named color and values of other types
Colors ==
  {[str |-> TRUE, chars |-> c, val |-> "string"] :
     c \in SeqsUpTo({"#", "0", "a", "F", "g"}, MaxColorLen) \cup
           {<<"#", "f", "f", "f", "f", "f", "f", "f", "f">>,
            <<"r", "e", "d">>}} \cup
  {[str |-> FALSE, chars |-> <<>>, val |-> v] :
     v \in {Undefined, Null, One, EmptyArray, PlainObject}}

\* [0-9a-fA-F]{n} matched from position i on
RECURSIVE HexRun(_, _, _)
HexRun(chars, i, n) ==
  IF n = 0 THEN TRUE
  ELSE i <= Len(chars) /\ chars[i] \in HexClass /\ HexRun(chars, i + 1, n - 1)

\* the pattern without its `$`
TestUnanchored(chars) == StartsAt(chars, 1, <<"#">>) /\ HexRun(chars, 2, HexDigits)

\* /^#[0-9a-fA-F]{6}$/.test(color): `$` holds at the end of the input only
Test(chars) ==
  /\ StartsAt(chars, 1, <<"#">>)
  /\ HexRun(chars, 2, HexDigits)
  /\ Len(chars) = 1 + HexDigits

\* color.isHexColor({ color }) on the argument drawn initially
IsHexColor ==
  /\ ret.op = "color"
  /\ ret' = Call("isHexColor", 0, Undefined, NoTypes, ret.value,
                 Return(IF ~ret.value.str THEN False
                        ELSE Bool(Test(ret.value.chars))))
  /\ logged' = {}
  /\ UNCHANGED <<tcVars, uiVars, pageVars, widgetVars>>

(***************************************************************************)
(* Class lists and attributes of single components: the container of a     *)
(* Header or Footer, the styles of a Button, the striped class of a Table, *)
(* the failure and success properties of a Checkbox and the name of an     *)
(* Icon.  One component is observed at a time; constructing another        *)
(* replaces it.  A class list whose tokens are inspected character by      *)
(* character is a sequence of tokens, each a sequence of one-character     *)
(* strings, in the order of the DOMTokenList.                              *)
(***************************************************************************)
\* longest array handed to the styles setter
MaxStyles == 2

\* longest string handed to the name setter
MaxNameLen == 3

\* the private field #supportedStyles of Button
supportedStyles == {"outline", "secondary", "contrast", "primary"}

\* a component of the given kind after its constructor ran with options that
\* hold at most a container: Header and Footer assign
\* options.container || 'fluid' to their container, the other constructors
\* leave the class list empty, #styles empty and #name, #failure, #success
\* unassigned
NewWidget(kind, container) ==
  [kind |-> kind,
   classes |-> IF kind \in {"header", "footer"}
                 THEN ContainerClasses({}, IF Truthy(container) THEN container
                                           ELSE "fluid")
                 ELSE {},
   list |-> <<>>, styles |-> <<>>, name |-> <<>>, failure |-> Undefined,
   success |-> Undefined, aria |-> Null]

\* new ui.Header(options), new ui.Footer(options), new ui.Button(),
\* new ui.Table(), new ui.Checkbox(), new ui.Icon()
WidgetConstruct(kind, container) ==
  /\ widget' = NewWidget(kind, container)
  /\ ret' = Call("new widget", 0, kind, NoTypes, container, Return(kind))
  /\ logged' = IF kind \in {"header", "footer"}
                 THEN ContainerLog(IF Truthy(container) THEN container
                                   ELSE "fluid")
                 ELSE {}
  /\ UNCHANGED <<tcVars, uiVars, pageVars, sw, calls, table, para, heading>>

\* header.container = value and footer.container = value
HeaderSetContainer(value) ==
  /\ widget.kind \in {"header", "footer"}
  /\ widget' = [widget EXCEPT !.classes = ContainerClasses(@, value)]
  /\ ret' = Call("set container", 0, widget.kind, NoTypes, value,
                 Return(Undefined))
  /\ logged' = ContainerLog(value)
  /\ UNCHANGED <<tcVars, uiVars, pageVars, sw, calls, table, para, heading>>

\* a styles setter that adds to the classes the element has
StyleClassesKeepingEarlier(classes, kept) ==
  classes \cup {kept[i] : i \in DOMAIN kept}

\* the classes of the button element after `className = ''` and a
\* classList.add for every style the filter keeps
StyleClasses(classes, kept) == {kept[i] : i \in DOMAIN kept}

\* button.styles = value, for an array of strings
SetStyles(value) ==
  /\ widget.kind = "button"
  /\ LET kept == SelectSeq(value, LAMBDA style : style \in supportedStyles)
     IN widget' = [widget EXCEPT !.classes = StyleClasses(@, kept),
                                 !.styles = kept]
  /\ ret' = Call("set styles", 0, Undefined, NoTypes, value, Return(Undefined))
  /\ logged' = {"invalidStyleError " \o value[i] :
                  i \in {j \in DOMAIN value : value[j] \notin supportedStyles}}
  /\ UNCHANGED <<tcVars, uiVars, pageVars, sw, calls, table, para, heading>>

\* the exception classList.add and classList.remove raise for a token: a
\* SyntaxError for the empty string, an InvalidCharacterError for a token
\* with ASCII whitespace, "" when they raise none
TokenError(token) ==
  IF token = <<>> THEN "SyntaxError"
  ELSE IF \E i \in 1..Len(token) : token[i] = " "
    THEN "InvalidCharacterError"
  ELSE ""

\* classList.add(token) for the tokens in turn, up to the first call that
\* raises: the exception and the class list it leaves
RECURSIVE Add(_, _)
Add(list, tokens) ==
  IF tokens = <<>> THEN [error |-> "", list |-> list]
  ELSE IF TokenError(Head(tokens)) # ""
    THEN [error |-> TokenError(Head(tokens)), list |-> list]
  ELSE Add(IF \E i \in 1..Len(list) : list[i] = Head(tokens) THEN list
           ELSE Append(list, Head(tokens)),
           Tail(tokens))

\* table.striped: classList.contains('striped')
Striped(list) ==
  \E i \in 1..Len(list) : list[i] = <<"s", "t", "r", "i", "p", "e", "d">>

\* table.striped = value
SetStriped(value) ==
  /\ widget.kind = "table"
  /\ LET on == value = True
         className == IF on THEN <<"s", "t", "r", "i", "p", "e", "d">>
                      ELSE <<"s", "t", "r", "i", "p", "e", "d", " ">>
         added == Add(widget.list, <<className>>)
         removed == SelectSeq(widget.list, LAMBDA cls : cls # className)
         error == TokenError(className)
     IN /\ widget' = [widget EXCEPT !.list = IF on THEN added.list
                                             ELSE IF error = "" THEN removed
                                             ELSE @]
        /\ ret' = Call("set striped", 0, Undefined, NoTypes, value,
                       IF error = "" THEN Return(Undefined)
                       ELSE Throw(error))
  /\ logged' = TypeErrorLog("boolean", value, "stripedTypeError")
  /\ UNCHANGED <<tcVars, uiVars, pageVars, sw, calls, table, para, heading>>

\* checkbox.failure = value
SetFailure(value) ==
  /\ widget.kind = "checkbox"
  /\ widget' = [widget EXCEPT !.aria = IF value = True THEN "true" ELSE Null,
                              !.failure = value]
  /\ ret' = Call("set failure", 0, Undefined, NoTypes, value,
                 Return(Undefined))
  /\ logged' = TypeErrorLog("boolean", value, "failureTypeError")
  /\ UNCHANGED <<tcVars, uiVars, pageVars, sw, calls, table, para, heading>>

\* checkbox.success = value
SetSuccess(value) ==
  /\ widget.kind = "checkbox"
  /\ widget' = [widget EXCEPT !.aria = IF value = True THEN "false" ELSE Null,
                              !.success = value]
  /\ ret' = Call("set success", 0, Undefined, NoTypes, value,
                 Return(Undefined))
  /\ logged' = TypeErrorLog("boolean", value, "successTypeError")
  /\ UNCHANGED <<tcVars, uiVars, pageVars, sw, calls, table, para, heading>>

\* classList.forEach(cls => classList.remove(cls)) from index k on: forEach
\* visits the indices of the live list in turn, and each removal moves the
\* tokens behind the removed one down by one index
RECURSIVE ForEachRemove(_, _)
ForEachRemove(list, k) ==
  IF k > Len(list) THEN list
  ELSE ForEachRemove(SubSeq(list, 1, k - 1) \o SubSeq(list, k + 1, Len(list)),
                     k + 1)

\* chars.trim()
RECURSIVE Trim(_)
Trim(chars) ==
  IF chars # <<>> /\ Head(chars) = " " THEN Trim(Tail(chars))
  ELSE IF chars # <<>> /\ chars[Len(chars)] = " "
    THEN Trim(SubSeq(chars, 1, Len(chars) - 1))
  ELSE chars

\* chars.split(/\s+/), token being the characters read since the last
\* separator
RECURSIVE Split(_, _)
Split(chars, token) ==
  IF chars = <<>> THEN <<token>>
  ELSE IF Head(chars) # " " THEN Split(Tail(chars), Append(token, Head(chars)))
  ELSE IF Tail(chars) # <<>> /\ Head(Tail(chars)) = " "
    THEN Split(Tail(chars), token)
  ELSE <<token>> \o Split(Tail(chars), <<>>)

\* icon.name = value, for a string
SetName(value) ==
  /\ widget.kind = "icon"
  /\ LET added == Add(ForEachRemove(widget.list, 1),
                      Split(Trim(value), <<>>))
     IN /\ widget' = [widget EXCEPT !.list = added.list,
                                    !.name = IF added.error = ""
                                               THEN Trim(value) ELSE @]
        /\ ret' = Call("set name", 0, Undefined, NoTypes, value,
                       IF added.error = "" THEN Return(Undefined)
                       ELSE Throw(added.error))
  /\ logged' = {}
  /\ UNCHANGED <<tcVars, uiVars, pageVars, sw, calls, table, para, heading>>

(***************************************************************************)
(* Initial states and specifications.                                      *)
(***************************************************************************)
NoUI ==
  /\ uiMap = [n \in {} |-> Undefined]
  /\ uiOwn = [n \in {} |-> Undefined]
  /\ uiProto = UserInterfacePrototype

NoPage ==
  /\ pages = <<>>
  /\ body = <<>>
  /\ mainClasses = <<>>
  /\ docTitle = ""
  /\ faviconHref = Undefined

\* no Switch constructed, a Table whose sections have no rows, a Paragraph
\* and a Heading whose text has not been assigned
NoWidgets ==
  /\ sw = NoSwitch
  /\ calls = <<>>
  /\ table = [header |-> <<>>, body |-> <<>>, footer |-> <<>>]
  /\ para = [set |-> FALSE, raw |-> <<>>, html |-> <<>>]
  /\ heading = [set |-> FALSE, raw |-> <<>>, html |-> <<>>]
  /\ widget = NewWidget("none", Undefined)

\* the TypeChecker singleton after the register calls of the script
LoadedSingleton ==
  /\ tcInstance = 1
  /\ tcObjs = <<LoadedTypes>>
  /\ tcLastReg = [k \in PropertyKeys |->
                    CASE k = "component" -> "<class Component>"
                      [] k = "button" -> "<class Button>"
                      [] k = "table-row" -> "<class TableRow>"
                      [] k = "header" -> "<class Header>"
                      [] k = "footer" -> "<class Footer>"
                      [] OTHER -> NoRegistration]

\* `typechecker` as the script leaves it after its register calls
LoadedTypeChecker ==
  /\ LoadedSingleton
  /\ ret = Call("load", 0, Undefined, NoTypes, Undefined, Return(Undefined))
  /\ logged = {}

\* the widget classes the script registers with ui
LoadedRegistry ==
  [n \in {"Component", "Button", "Page"} |->
     CASE n = "Component" -> "<class Component>"
       [] n = "Button" -> "<class Button>"
       [] n = "Page" -> "<class Page>"]

\* the classes have been evaluated and no TypeChecker constructed yet
Init ==
  /\ tcInstance = 0
  /\ tcObjs = <<>>
  /\ tcLastReg = [k \in PropertyKeys |-> NoRegistration]
  /\ ret = Call("load", 0, Undefined, NoTypes, Undefined, Return(Undefined))
  /\ logged = {}
  /\ NoUI
  /\ NoPage
  /\ NoWidgets

\* every call on an object that lost the singleton race fails the same way,
\* so one input of each operation is drawn for those objects
RegisterInputs(obj) ==
  IF obj = tcInstance THEN RegisterNames \X RegisterConstructors
  ELSE {<<"component", "<class Component>">>}

CheckInputs(obj) ==
  IF obj = tcInstance
    THEN CheckNames \X
           {Null, NaNValue, One, True, "x", EmptyArray, PlainObject,
            "<class Component>", "<new Component>", "<new Button>"}
    ELSE {<<"string", "x">>}

CheckMultipleInputs(obj) ==
  IF obj = tcInstance
    THEN ({[arr |-> TRUE, elems |-> e, val |-> ArrayValue] :
             e \in SeqsUpTo({"string", "component", "__proto__"},
                            MaxTypes)} \cup
          {[arr |-> FALSE, elems |-> <<>>, val |-> v] :
             v \in {Undefined, One, PlainObject, "ab"}}) \X
         {"x", "<new Button>"}
    ELSE {<<[arr |-> TRUE, elems |-> <<>>, val |-> ArrayValue], "x">>}

Next ==
  \/ New
  \/ GetInstance
  \/ \E obj \in 1..Len(tcObjs) : \E in \in RegisterInputs(obj) :
        Register(obj, in[1], in[2])
  \/ \E obj \in 1..Len(tcObjs) : \E in \in CheckInputs(obj) :
        Check(obj, in[1], in[2])
  \/ \E obj \in 1..Len(tcObjs) : \E in \in CheckMultipleInputs(obj) :
        CheckMultiple(obj, in[1], in[2])

Spec == Init /\ [][Next]_vars

\* `ui` has just been constructed and nothing is registered with it yet
InitUI ==
  /\ LoadedTypeChecker
  /\ NoUI
  /\ NoPage
  /\ NoWidgets

NextUI ==
  \/ \E name \in {"Button", "register", "__proto__", "undefined", Undefined},
        constructor \in {"<class Component>", "<class Button>", "x"} :
        UIRegister(name, constructor)
  \/ \E constructor \in RegisterConstructors :
        Register(1, "string", constructor)

SpecUI == InitUI /\ [][NextUI]_vars

\* the script has been evaluated and no Page or other widget constructed yet
InitPage ==
  /\ LoadedTypeChecker
  /\ uiMap = LoadedRegistry
  /\ uiOwn = LoadedRegistry
  /\ uiProto = UserInterfacePrototype
  /\ NoPage
  /\ NoWidgets

NextPage ==
  \/ \E options \in PageOptions : PageConstruct(options)
  \/ \E p \in 1..Len(pages), value \in PageContainers : SetContainer(p, value)
  \/ \E p \in 1..Len(pages), value \in {"Home", One} : SetTitle(p, value)
  \/ \E p \in 1..Len(pages), value \in {"star.png", One} : SetFavicon(p, value)
  \/ \E p \in 1..Len(pages) : RemoveMain(p)
  \/ \E p \in 1..Len(pages) : GetContainer(p)

SpecPage == InitPage /\ [][NextPage]_vars

\* a Switch or Checkbox is constructed and used after the script ran
NextSwitch ==
  \/ \E kind \in {"switch", "checkbox"},
        options \in [checked : {Undefined, True, False},
                     onChange : {Undefined, HandlerF, HandlerG},
                     onTap : {Undefined, HandlerG}] :
        Construct(kind, options)
  \/ \E value \in {True, False, One} : SetChecked(value)
  \/ \E tap \in {Undefined, True, False} : On(tap)
  \/ \E tap \in {Undefined, True, False} : Off(tap)
  \/ \E tap \in {Undefined, True, False} : Toggle(tap)
  \/ \E value \in {HandlerF, HandlerG} : SetOnChange(value)
  \/ \E value \in {HandlerF, HandlerG} : SetOnTap(value)
  \/ UserTap

SpecSwitch == InitPage /\ [][NextSwitch]_vars

\* rows are added to a Table constructed after the script ran
NextTable ==
  \E row \in {"<new TableRow 1>", "<new TableRow 2>", "<new Button>", "x"},
     scope \in {"header", "body", "footer", "side", Undefined} :
        AddRow(row, scope)

SpecTable == InitPage /\ [][NextTable]_vars

\* the text of a Paragraph constructed after the script ran is set and read
NextParagraph ==
  \/ \E value \in Texts : ParagraphSetText(value)
  \/ ParagraphGetText

SpecParagraph == InitPage /\ [][NextParagraph]_vars

\* the text of a Heading constructed after the script ran is set and read
NextHeading ==
  \/ \E value \in Texts : HeadingSetText(value)
  \/ HeadingGetText

SpecHeading == InitPage /\ [][NextHeading]_vars

\* the script has been evaluated and a caller holds an argument for
\* isHexColor
InitColor ==
  /\ LoadedSingleton
  /\ \E color \in Colors :
        ret = Call("color", 0, Undefined, NoTypes, color, Return(Undefined))
  /\ logged = {}
  /\ uiMap = LoadedRegistry
  /\ uiOwn = LoadedRegistry
  /\ uiProto = UserInterfacePrototype
  /\ NoPage
  /\ NoWidgets

NextColor == IsHexColor

SpecColor == InitColor /\ [][NextColor]_vars

\* a Page and a Header or Footer are constructed and their containers
\* assigned
NextContainer ==
  \/ \E container \in PageContainers :
        PageConstruct([container |-> container, title |-> Undefined,
                       favicon |-> Undefined])
  \/ \E p \in 1..Len(pages), value \in PageContainers : SetContainer(p, value)
  \/ \E kind \in {"header", "footer"}, container \in PageContainers :
        WidgetConstruct(kind, container)
  \/ \E value \in PageContainers : HeaderSetContainer(value)

SpecContainer == InitPage /\ [][NextContainer]_vars

\* pages are constructed, headers and footers added to them and removed
NextLayout ==
  \/ PageConstruct([container |-> Undefined, title |-> Undefined,
                    favicon |-> Undefined])
  \/ \E p \in 1..Len(pages) : RemoveMain(p)
  \/ \E p \in 1..Len(pages), header \in {"<new Header 1>", "<new Header 2>"} :
        AddHeader(p, header)
  \/ \E p \in 1..Len(pages) : AddFooter(p, "<new Footer 1>")
  \/ \E p \in 1..Len(pages) : RemoveHeader(p)
  \/ \E p \in 1..Len(pages) : RemoveFooter(p)

SpecLayout == InitPage /\ [][NextLayout]_vars

\* a Button, Table, Checkbox or Icon is constructed and its properties
\* assigned
NextWidget ==
  \/ \E kind \in {"button", "table", "checkbox", "icon"} :
        WidgetConstruct(kind, Undefined)
  \/ \E value \in SeqsUpTo({"primary", "outline", "bold"}, MaxStyles) :
        SetStyles(value)
  \/ \E value \in {True, False, One} : SetStriped(value)
  \/ \E value \in {True, False, One} : SetFailure(value)
  \/ \E value \in {True, False, One} : SetSuccess(value)
  \/ \E value \in SeqsUpTo({"a", "b", " "}, MaxNameLen) : SetName(value)

SpecWidget == InitPage /\ [][NextWidget]_vars

(***************************************************************************)
(* Properties of the TypeChecker.                                          *)
(***************************************************************************)
\* C1: check returns false, without raising, for every type name that is
\* neither a seeded primitive nor a registered name, and for a known name it
\* returns the result of that name's predicate applied to the value.
C1_CheckUnknownIsFalse ==
  (ret.op = "check" /\ ret.obj = tcInstance) =>
    LET key == ToPropertyKey(ret.type)
    IN IF tcLastReg[key] # NoRegistration
         THEN [kind |-> ret.kind, val |-> ret.val]
                = InstanceOf(ret.value, tcLastReg[key])
         ELSE IF key \in PrimitiveNames
                THEN ret.kind = "return"
                     /\ ret.val = Bool(Primitive(key, ret.value))
                ELSE ret.kind = "return" /\ ret.val = False

\* C2: for an array `types`, checkMultiple returns true exactly when check
\* succeeds for at least one element and returns false when none match, in
\* particular for the empty array.
C2_CheckMultipleIsAny ==
  (ret.op = "checkMultiple" /\ ret.obj = tcInstance /\ ret.types.arr) =>
    LET succeeds(type) ==
          LET r == check(tcObjs[ret.obj], type, ret.value)
          IN r.kind = "return" /\ Truthy(r.val)
    IN /\ ret.kind = "return"
       /\ ret.val = Bool(\E i \in 1..Len(ret.types.elems) :
                            succeeds(ret.types.elems[i]))

\* C3: after register({name, constructor: W}) for a class W, check(name, x)
\* is true exactly when x is an instance of W or of a subclass of W, and
\* false for a plain object.
C3_RegisteredIsInstanceOf ==
  (/\ ret.op = "check"
   /\ ret.obj = tcInstance
   /\ tcLastReg[ToPropertyKey(ret.type)] \in Classes) =>
    LET W == tcLastReg[ToPropertyKey(ret.type)]
    IN /\ ret.kind = "return"
       /\ ret.val \in {True, False}
       /\ ret.val = True <=>
            (ret.value \in Instances /\ W \in Ancestors(ClassOf(ret.value)))
       /\ ret.value = PlainObject => ret.val = False

\* C3 witness: a Button passes check('component') after Component registered.
C3_Witness ==
  /\ ret.op = "check"
  /\ ret.obj = tcInstance
  /\ ret.type = "component"
  /\ tcLastReg["component"] = "<class Component>"
  /\ ret.value = "<new Button>"
  /\ ret.val = True

\* C4: the outcome of check(name, v) for a registered name is decided by the
\* constructor of the most recent register call under that name alone.
C4_LastRegistrationWins ==
  (/\ ret.op = "check"
   /\ ret.obj = tcInstance
   /\ tcLastReg[ToPropertyKey(ret.type)] # NoRegistration) =>
    [kind |-> ret.kind, val |-> ret.val]
      = InstanceOf(ret.value, tcLastReg[ToPropertyKey(ret.type)])

\* C4 witness: 'string' was registered over the seeded predicate, and the
\* string "x" no longer passes check('string').
C4_Witness ==
  /\ ret.op = "check"
  /\ ret.obj = tcInstance
  /\ ret.type = "string"
  /\ tcLastReg["string"] = "<class Button>"
  /\ ret.value = "x"
  /\ ret.val = False

\* C5 as stated: in every state, check(T, v) for a primitive name T equals
\* the host's native type predicate (typeof, Array.isArray) for v, and
\* check('any', v) is true.
C5_PrimitiveIsNativeAlways ==
  (/\ ret.op = "check"
   /\ ret.obj = tcInstance
   /\ ret.type \in PrimitiveNames) =>
    LET native ==
          CASE ret.type = "array" -> IsArray(ret.value)
            [] ret.type = "any" -> TRUE
            [] OTHER -> TypeOf(ret.value) = ret.type
    IN ret.kind = "return" /\ ret.val = Bool(native)

\* C5 amended: while the primitive name T has not been re-registered,
\* check(T, v) is typeof v === T for string, boolean and function, a number
\* that is not NaN for number, Array.isArray(v) for array, a non-null
\* non-array object for object, and true for any.
C5_PrimitiveWhileNotReRegistered ==
  (/\ ret.op = "check"
   /\ ret.obj = tcInstance
   /\ ret.type \in PrimitiveNames
   /\ tcLastReg[ret.type] = NoRegistration) =>
    LET expected ==
          CASE ret.type = "array" -> ret.value \in {EmptyArray, ArrayValue}
            [] ret.type = "any" -> TRUE
            [] ret.type = "number" ->
                 TypeOf(ret.value) = "number" /\ ret.value # NaNValue
            [] ret.type = "object" ->
                 /\ TypeOf(ret.value) = "object"
                 /\ ret.value \notin {Null, EmptyArray, ArrayValue}
            [] OTHER -> TypeOf(ret.value) = ret.type
    IN ret.kind = "return" /\ ret.val = Bool(expected)

\* C5 witness: check('number', NaN) is false on the seeded registry.
C5_Witness ==
  /\ ret.op = "check"
  /\ ret.obj = tcInstance
  /\ ret.type = "number"
  /\ tcLastReg["number"] = NoRegistration
  /\ ret.value = NaNValue
  /\ ret.val = False

\* C6: once a first TypeChecker exists, every further construction logs the
\* single-instance error, keeps the authoritative instance reference and
\* leaves the first instance's registry as it was.
C6_SecondConstructionKeepsFirst ==
  [][(tcInstance # 0 /\ Len(tcObjs') = Len(tcObjs) + 1) =>
       /\ "singleInstanceError" \in logged'
       /\ tcInstance' = tcInstance
       /\ tcObjs'[tcInstance] = tcObjs[tcInstance]]_vars

\* C6 witness: getInstance was called when an instance already existed.
C6_Witness ==
  /\ ret.op = "getInstance"
  /\ ret.obj = 2
  /\ tcInstance = 1
  /\ logged = {"singleInstanceError"}
  /\ tcObjs[1].defined

\* C7: checkMultiple with a `types` argument that is not an array logs the
\* error and returns false; it never raises.
C7_CheckMultipleNonArrayReturnsFalse ==
  (ret.op = "checkMultiple" /\ ret.obj = tcInstance /\ ~ret.types.arr) =>
    /\ "checkMultipleTypeError" \in logged
    /\ ret.kind = "return"
    /\ ret.val = False

(***************************************************************************)
(* Properties of the UserInterface registry.                               *)
(***************************************************************************)
\* C8: for every registered name the registry map and the same-named
\* attribute of the registry object hold the same constructor.
C8_MapAndAttributeAgree ==
  \A name \in DOMAIN uiMap :
    UIGet(uiOwn, uiProto, ToPropertyKey(name)) = uiMap[name]

\* C9: every entry of the registry has a string name and an invokable
\* constructor, whatever register was called with.
C9_EntriesAreValid ==
  \A name \in DOMAIN uiMap :
    TypeOf(name) = "string" /\ TypeOf(uiMap[name]) = "function"

(***************************************************************************)
(* Properties of Page.                                                     *)
(***************************************************************************)
\* C10: document.body holds at most one main element created by a Page; a
\* construction attempted while a main element exists logs the page-exists
\* error and appends nothing.
C10_AtMostOneMain ==
  [][/\ Cardinality({i \in 1..Len(body') : body'[i].tag = "main"}) <= 1
     /\ (/\ Len(pages') = Len(pages) + 1
         /\ \E i \in 1..Len(body) : body[i].tag = "main")
          => ("pageExistsError" \in logged' /\ body' = body)]_vars

\* C10 witness: a second Page was constructed while the first one's main
\* element was in the document.
C10_Witness ==
  /\ ret.op = "new Page"
  /\ Len(pages) = 2
  /\ pages[1].main = 1
  /\ pages[2].main = 0
  /\ logged = {"pageExistsError"}
  /\ body = <<[tag |-> "main", page |-> 1]>>

\* C11: every call made on a Page whose constructor found an earlier page
\* root and returned early (here the container setter and the container
\* getter) returns without raising an exception.
C11_CallsOnEarlyReturnedPageReturn ==
  (ret.op \in {"set container", "get container"} /\ pages[ret.obj].main = 0)
    => ret.kind = "return"

(***************************************************************************)
(* Properties of Switch, Checkbox and the handler properties.              *)
(***************************************************************************)
\* C12: toggle flips the checked value of a Switch and of a Checkbox: false
\* becomes true and true becomes false in every state, so two consecutive
\* toggles restore the value they started from.
C12_ToggleFlips ==
  [][ret'.op = "toggle" => sw'.checked = ~sw.checked]_vars

C12_Witness ==
  ret.op = "toggle" /\ sw.kind = "checkbox" /\ ~sw.checked /\ sw.dirty

\* C13: on, off and toggle update the checked value and the checked
\* attribute whatever tap is; with tap true no handler is invoked, and with
\* tap false or omitted the installed onChange handler is invoked exactly
\* once.
C13_ChangeIffNotTap ==
  ret.op \in {"on", "off", "toggle"} =>
    /\ sw.attr = sw.checked
    /\ ret.op = "on" => sw.checked
    /\ ret.op = "off" => ~sw.checked
    /\ Len(calls) = (IF ret.value = True \/ sw.onChange = Undefined
                       THEN 0 ELSE 1)
    /\ \A i \in 1..Len(calls) : calls[i].fn = sw.onChange

C13_Witness ==
  /\ ret.op = "toggle" /\ ret.value = True
  /\ sw.onChange = HandlerF /\ sw.checked /\ sw.attr

\* C14: after any sequence of assignments of handlers to onTap and to
\* onChange exactly one listener is installed for the event and it is the
\* handler assigned last, so a user's tap invokes the latest onTap handler
\* once, then the latest onChange handler once, and no earlier handler.
C14_OneListenerTheLatest ==
  sw.kind # "none" =>
    /\ sw.change = (IF sw.onChange = Undefined THEN <<>> ELSE <<sw.onChange>>)
    /\ sw.click = (IF sw.onTap = Undefined THEN <<>> ELSE <<sw.onTap>>)
    /\ ret.op = "set onChange" => sw.onChange = ret.value
    /\ ret.op = "set onTap" => sw.onTap = ret.value
    /\ ret.op = "tap" =>
         [i \in 1..Len(calls) |-> calls[i].fn] = sw.click \o sw.change

C14_Witness ==
  /\ ret.op = "tap" /\ Len(calls) = 2
  /\ sw.onTap = HandlerF /\ sw.onChange = HandlerG

\* C19: constructing a Switch with checked true and an onChange handler
\* never invokes the handler during construction.
C19_ConstructionNeverInvokes == ret.op = "new" => calls = <<>>

C19_Witness ==
  ret.op = "new" /\ sw.kind = "switch" /\ sw.checked /\ sw.onChange = HandlerF

\* C20: on() and off() with tap false or omitted return only after the
\* onChange handler has run, and the handler runs after the attribute and
\* the checked value were updated: the checked getter it reads gives the
\* new state.
C20_HandlerSeesNewState ==
  (ret.op \in {"on", "off"} /\ ret.value # True) =>
    /\ ret.kind = "return"
    /\ sw.onChange # Undefined => calls # <<>>
    /\ \A i \in 1..Len(calls) :
          /\ calls[i].seen = Bool(ret.op = "on")
          /\ calls[i].attr = (ret.op = "on")

C20_Witness ==
  /\ ret.op = "off" /\ ret.value = Undefined
  /\ Len(calls) = 1 /\ calls[1].seen = False /\ calls[1].arg = True

(***************************************************************************)
(* Properties of Table.                                                    *)
(***************************************************************************)
\* C15: addRow with a scope other than header, body and footer logs an
\* error and leaves the children of the three sections unchanged; with a
\* recognized scope the row ends up as the last child of that section, in
\* no other section, and the other rows stay where they were.
C15_AddRowScope ==
  [][ret'.op = "addRow" =>
       LET scope == ret'.type
           row == ret'.value
           Others(rows) == SelectSeq(rows, LAMBDA r : r # row)
       IN IF scope \notin {"header", "body", "footer"}
            THEN table' = table /\ "invalidScopeError" \in logged'
          ELSE IF row \in Instances
            THEN /\ ret'.kind = "return"
                 /\ "invalidScopeError" \notin logged'
                 /\ table'[scope] = Append(Others(table[scope]), row)
                 /\ \A k \in DOMAIN table \ {scope} :
                       table'[k] = Others(table[k])
          ELSE table' = table]_vars

C15_Witness ==
  /\ ret.op = "addRow" /\ ret.type = "footer"
  /\ ret.value = "<new TableRow 1>"
  /\ table.footer = <<"<new TableRow 2>", "<new TableRow 1>">>
  /\ table.body = <<"<new Button>">>

(***************************************************************************)
(* Properties of the text of Paragraph and Heading.                        *)
(***************************************************************************)
\* C16: for every text built from plain characters and non-nested groups
\* with bracket-free content, reading the text of a Paragraph returns the
\* string that was assigned.
C16_TextRoundTrips ==
  (ret.op = "get text" /\ para.set) => ret.val = para.raw

\* C17: assigning a text with a [tag:content] group to a Heading stores the
\* content as the inline element the Paragraph setter would store.
C17_HeadingStoresMarkup ==
  heading.set => heading.html = InnerHTML(Formatted(heading.raw))

\* C17 (amended): a Heading does not interpret the brackets: the assigned
\* string becomes the text content of the element verbatim, no inline
\* element is created, and reading the text returns the assigned string.
C17_HeadingStoresVerbatim ==
  heading.set =>
    /\ heading.html = InnerHTML(heading.raw)
    /\ \A i \in 1..Len(heading.html) : heading.html[i] # "<"
    /\ ret.op = "get text" => ret.val = heading.raw

C17_Witness ==
  /\ heading.set /\ ret.op = "get text"
  /\ heading.raw = Group(<<"e", "m">>, <<"a">>) \o <<"&">>

(***************************************************************************)
(* Properties of ColorManager.                                             *)
(***************************************************************************)
\* C18: isHexColor returns true exactly when its argument is a string made
\* of `#` followed by exactly six hexadecimal digits of either case, and
\* false for every other string and for every value that is not a string.
C18_IsHexColorExact ==
  ret.op = "isHexColor" =>
    /\ ret.kind = "return"
    /\ ret.val \in {True, False}
    /\ ret.val = True <=>
         /\ ret.value.str
         /\ Len(ret.value.chars) = 1 + HexDigits
         /\ ret.value.chars[1] = "#"
         /\ \A i \in 2..Len(ret.value.chars) : ret.value.chars[i] \in HexClass

C18_Witness ==
  /\ ret.op = "isHexColor" /\ ret.val = True
  /\ \E i, j \in 2..Len(ret.value.chars) :
        ret.value.chars[i] = "a" /\ ret.value.chars[j] = "F"

(***************************************************************************)
(* Further properties of Switch, TypeChecker and the registry.             *)
(***************************************************************************)
\* C25: in every state reached by on, off, toggle and user taps the checked
\* getter of the Switch equals the checked state of its element, the value
\* an onChange handler receives as event.target.checked.
C25_GetterEqualsElementState == sw.kind # "none" => sw.checked = sw.prop

\* C26: check called on an object that getInstance returned after the first
\* instance existed returns a boolean and does not raise.
C26_CheckOnLaterInstanceReturnsBoolean ==
  (ret.op = "check" /\ ret.obj # tcInstance) =>
    ret.kind = "return" /\ ret.val \in {True, False}

\* C27: after any sequence of register calls ui.register is still the
\* registration operation, also when a widget was registered under the
\* name of a member of the registry object.
C27_RegisterStaysRegistration ==
  UIGet(uiOwn, uiProto, "register") = RegisterMethod

C22_StylesAreLastSupported ==
  ret.op = "set styles" =>
    LET kept == SelectSeq(ret.value, LAMBDA style : style \in supportedStyles)
    IN /\ widget.styles = kept
       /\ widget.classes = {kept[i] : i \in DOMAIN kept}
       /\ \A i \in DOMAIN ret.value :
            ret.value[i] \notin supportedStyles =>
              /\ ("invalidStyleError " \o ret.value[i]) \in logged
              /\ \A j \in DOMAIN widget.styles :
                   widget.styles[j] # ret.value[i]

\* C22 witness: an array with an unsupported entry in front of a supported
\* one was assigned.
C22_Witness ==
  /\ ret.op = "set styles"
  /\ ret.value = <<"bold", "outline">>
  /\ widget.styles = <<"outline">>
  /\ widget.classes = {"outline"}
  /\ logged = {"invalidStyleError bold"}

\* C24: the striped setter of a Table returns without an exception, and
\* the getter reads back the boolean that was assigned: true after
\* striped = true, false (the class is removed) after striped = false.
C24_StripedReadsBack ==
  (ret.op = "set striped" /\ ret.value \in {True, False}) =>
    /\ ret.kind = "return"
    /\ Striped(widget.list) <=> ret.value = True

\* C29: the aria-invalid attribute of a Checkbox agrees with its getters: it
\* is 'true' exactly when failure is true, and 'false' exactly when success
\* is true and failure is not.
C29_AriaInvalidAgrees ==
  widget.kind = "checkbox" =>
    /\ widget.aria = "true" <=> widget.failure = True
    /\ widget.aria = "false" <=>
         (widget.success = True /\ widget.failure # True)

\* C30: after a string was assigned to the name of an Icon, in any state
\* of its class list, the classes of the element are exactly the
\* whitespace-separated tokens of that string.
C30_ClassesAreTokensOfName ==
  ret.op = "set name" =>
    LET tokens == Split(Trim(ret.value), <<>>)
    IN {widget.list[i] : i \in DOMAIN widget.list} =
         {tokens[i] : i \in {j \in DOMAIN tokens : tokens[j] # <<>>}}

C28_AtMostOneHeader ==
  LET headers == {i \in 1..Len(body) :
                    body[i].tag \in {"<new Header 1>", "<new Header 2>"}}
      footers == {i \in 1..Len(body) : body[i].tag = "<new Footer 1>"}
  IN /\ Cardinality(headers) <= 1
     /\ Cardinality(footers) <= 1
     /\ \A i \in headers :
          \E p \in 1..Len(pages) : pages[p].header = body[i].tag
     /\ \A i \in footers :
          \E p \in 1..Len(pages) : pages[p].footer = body[i].tag
     /\ ret.op = "removeHeader" => headers = {}
     /\ ret.op = "removeFooter" => footers = {}

====
